---- MODULE Spec2Model ----
(***************************************************************************)
(* A model of pytitle.srt.subtitle.SrtSubtitle: the open() decode retry    *)
(* recursion, parse()/output, save() and the shift family.                 *)
(*                                                                         *)
(* Three specifications share the variables:                               *)
(*   SpecOpen  - one SrtSubtitle.open call with its recursive retries      *)
(*   Spec      - a constructed document under shift / save calls           *)
(*   SpecParse - parse() followed by the output property on a file text    *)
(* The collaborators imported from .types and .regex (Timestamp, Timing,   *)
(* Line, Encodings, LINE) are modelled from their documented contract.     *)
(***************************************************************************)
EXTENDS Integers, Sequences, FiniteSets, TLC

VARIABLES
    \* ---- SrtSubtitle.open ----
    decodable,   \* the encodings under which the file's bytes decode
    call,        \* the caller's arguments: encoding, fallback_encodings, use_chardet
    stack,       \* the activation records of open(), innermost last
    ret,         \* the value or exception travelling up the stack
    attempts,    \* the encodings file.read() was tried with, in order
    \* ---- a document under shift / save ----
    path,        \* self.path ("None" when absent)
    encoding,    \* self.encoding
    lines,       \* self.lines: <<>> when None, <<ids>> when a list of Line objects
    heap,        \* the Line objects, by identity
    fs,          \* the file system: path -> content
    result,      \* how the last call ended
    hist,        \* the last calls with the state they started from, newest first
    calls,       \* the number of calls made on the document
    \* ---- parse / output ----
    filestring,  \* the text handed to parse()
    pstage,      \* "input", "parsed" or "rendered"
    parsed,      \* the list parse() returned
    rendered     \* the string the output property returned

openVars  == <<decodable, call, stack, ret, attempts>>
docVars   == <<path, encoding, lines, heap, fs, result, hist, calls>>
parseVars == <<filestring, pstage, parsed, rendered>>
vars      == <<openVars, docVars, parseVars>>

None == "None"

(***************************************************************************)
(* SrtSubtitle.open                                                        *)
(***************************************************************************)
MaxChain == 2

EncodingNames == {"utf-8", "latin-1", "cp1252"}

\* The fallback chains a caller configures: no name listed twice.
Chains ==
    {c \in UNION {[1..n -> EncodingNames] : n \in 0..MaxChain} :
        \A i, j \in 1..Len(c) : i # j => c[i] # c[j]}

\* Encodings(): the default fallback chain is empty.
DefaultEncodings == <<>>

\* Encodings.get_encoding(index): the candidate at the 0-based index and the
\* next index, or None when the chain has no candidate there.
get_encoding(chain, index) ==
    IF index < Len(chain) THEN <<chain[index + 1], index + 1>>
                          ELSE <<None, index>>

\* The activation record of the call open(path, encoding, use_chardet,
\* fallback_encodings, enc_index=...).
Frame(enc, useChardet, fallback, encIndex) ==
    [encoding |-> enc, use_chardet |-> useChardet, fallback_encodings |-> fallback,
     enc_index |-> encIndex, pc |-> "open", handle |-> FALSE]

\* The recursive call of line 59 passes path, encoding and enc_index only:
\* use_chardet and fallback_encodings take their defaults.
RetryFrame(f, enc, encIndex) ==
    Frame(enc, FALSE, DefaultEncodings, encIndex)

\* Lines 53-56: the index the fallback chain is asked at.
NextIndex(f) ==
    IF f.encoding = "utf-8" THEN f.enc_index + 1 ELSE f.enc_index

Candidate(f) == get_encoding(f.fallback_encodings, NextIndex(f))

Top == stack[Len(stack)]

SetTop(f) == [stack EXCEPT ![Len(stack)] = f]

Pop == SubSeq(stack, 1, Len(stack) - 1)

NoRet == [kind |-> "none", value |-> None]

InitOpenVars ==
    /\ decodable \in SUBSET EncodingNames
    /\ call \in [encoding : EncodingNames, fallback_encodings : Chains,
                 use_chardet : BOOLEAN]
    /\ stack = <<Frame(call.encoding, call.use_chardet, call.fallback_encodings, 0)>>
    /\ ret = NoRet
    /\ attempts = <<>>

IdleOpenVars ==
    /\ decodable = {}
    /\ call = [encoding |-> "utf-8", fallback_encodings |-> <<>>, use_chardet |-> FALSE]
    /\ stack = <<>>
    /\ ret = NoRet
    /\ attempts = <<>>

\* Line 45: with open(path, "r", encoding=encoding) as file
OpenFile ==
    /\ stack # <<>>
    /\ Top.pc = "open"
    /\ stack' = SetTop([Top EXCEPT !.pc = "read", !.handle = TRUE])
    /\ UNCHANGED <<decodable, call, ret, attempts, docVars, parseVars>>

\* Lines 47, 69-70: the read decodes; the document is returned and the with
\* block releases this call's handle.
ReadOk ==
    /\ stack # <<>>
    /\ Top.pc = "read"
    /\ Top.encoding \in decodable
    /\ attempts' = Append(attempts, Top.encoding)
    /\ ret' = [kind |-> "document", value |-> Top.encoding]
    /\ stack' = Pop
    /\ UNCHANGED <<decodable, call, docVars, parseVars>>

\* Lines 48-59: UnicodeDecodeError with a candidate left: open() calls itself
\* from inside the with block, so this call's handle stays open meanwhile.
ReadFailRetry ==
    /\ stack # <<>>
    /\ Top.pc = "read"
    /\ Top.encoding \notin decodable
    /\ Candidate(Top)[1] # None
    /\ attempts' = Append(attempts, Top.encoding)
    /\ stack' = Append(SetTop([Top EXCEPT !.pc = "recurse"]),
                       RetryFrame(Top, Candidate(Top)[1], Candidate(Top)[2]))
    /\ UNCHANGED <<decodable, call, ret, docVars, parseVars>>

\* Lines 60-68: UnicodeDecodeError with the chain exhausted.
ReadFailExhausted ==
    /\ stack # <<>>
    /\ Top.pc = "read"
    /\ Top.encoding \notin decodable
    /\ Candidate(Top)[1] = None
    /\ attempts' = Append(attempts, Top.encoding)
    /\ ret' = [kind |-> "raise",
               value |-> IF Top.use_chardet THEN "NotImplementedError"
                                            ELSE "SrtEncodingDetectError"]
    /\ stack' = Pop
    /\ UNCHANGED <<decodable, call, docVars, parseVars>>

\* Line 59 returning (or the callee's exception passing through): the with
\* block of the calling activation releases its handle.
Unwind ==
    /\ stack # <<>>
    /\ Top.pc = "recurse"
    /\ ret.kind # "none"
    /\ stack' = Pop
    /\ UNCHANGED <<decodable, call, ret, attempts, docVars, parseVars>>

OpenDone == stack = <<>> /\ ret.kind # "none"

OpenHandles == {i \in 1..Len(stack) : stack[i].handle}

(***************************************************************************)
(* .types: Timestamp, Timing, Line (from their documented contract)        *)
(***************************************************************************)
MsPerSecond == 1000
SecPerMinute == 60
MinPerHour == 60

\* The total number of milliseconds a Timestamp's fields stand for.
ToMs(t) ==
    ((t.hours * MinPerHour + t.minutes) * SecPerMinute + t.seconds) * MsPerSecond
        + t.milliseconds

\* The normalized fields of a total: overflow is carried upward into hours.
FromMs(n) ==
    [hours        |-> n \div (MsPerSecond * SecPerMinute * MinPerHour),
     minutes      |-> (n \div (MsPerSecond * SecPerMinute)) % MinPerHour,
     seconds      |-> (n \div MsPerSecond) % SecPerMinute,
     milliseconds |-> n % MsPerSecond]

\* Timestamp(hours, minutes, seconds, milliseconds): constructs and normalizes.
Timestamp(h, m, s, ms) ==
    FromMs(ToMs([hours |-> h, minutes |-> m, seconds |-> s, milliseconds |-> ms]))

ZeroTimestamp == Timestamp(0, 0, 0, 0)

\* Timestamp.add: self + other forward, self - other backward, clamped at zero.
TimestampAdd(self, other, backward) ==
    LET total == IF backward THEN ToMs(self) - ToMs(other)
                             ELSE ToMs(self) + ToMs(other)
    IN  IF total < 0 THEN ZeroTimestamp ELSE FromMs(total)

\* Timing.shift(amount, backward, start, end)
TimingShift(timing, shift_by, backward, start, end) ==
    [start |-> IF start THEN TimestampAdd(timing.start, shift_by, backward)
                        ELSE timing.start,
     end   |-> IF end THEN TimestampAdd(timing.end, shift_by, backward)
                      ELSE timing.end]

\* Line.get_lines(lines, indexes): the lines whose index is listed, in order.
RECURSIVE get_lines(_, _, _)
get_lines(h, ids, indexes) ==
    IF ids = <<>> THEN <<>>
    ELSE LET rest == get_lines(h, Tail(ids), indexes)
         IN  IF \E k \in 1..Len(indexes) : indexes[k] = h[Head(ids)].index
             THEN <<Head(ids)>> \o rest
             ELSE rest

(***************************************************************************)
(* Text: a string is a sequence of one-character strings                   *)
(***************************************************************************)
DigitChar == <<"0", "1", "2", "3", "4", "5", "6", "7", "8", "9">>

IsDigit(c) == \E d \in 1..10 : DigitChar[d] = c

DigitVal(c) == (CHOOSE d \in 1..10 : DigitChar[d] = c) - 1

NL == "\n"

Whitespace == {" ", "\t", NL}

\* str(n) for an integer n
RECURSIVE Str(_)
Str(n) ==
    IF n < 0 THEN <<"-">> \o Str(0 - n)
    ELSE IF n < 10 THEN <<DigitChar[n + 1]>>
    ELSE Str(n \div 10) \o <<DigitChar[(n % 10) + 1]>>

\* f"{n:0{width}d}"
RECURSIVE ZeroFill(_, _)
ZeroFill(s, width) == IF Len(s) >= width THEN s ELSE ZeroFill(<<"0">> \o s, width)

Pad(n, width) == ZeroFill(Str(n), width)

\* int(digits)
RECURSIVE ToInt(_)
ToInt(s) ==
    IF s = <<>> THEN 0
    ELSE ToInt(SubSeq(s, 1, Len(s) - 1)) * 10 + DigitVal(s[Len(s)])

RECURSIVE LStrip(_)
LStrip(s) == IF s # <<>> /\ Head(s) \in Whitespace THEN LStrip(Tail(s)) ELSE s

RECURSIVE RStrip(_)
RStrip(s) ==
    IF s # <<>> /\ s[Len(s)] \in Whitespace THEN RStrip(SubSeq(s, 1, Len(s) - 1)) ELSE s

\* str.strip()
Strip(s) == LStrip(RStrip(s))

\* sep.join(parts)
RECURSIVE Join(_, _)
Join(sep, parts) ==
    IF parts = <<>> THEN <<>>
    ELSE IF Len(parts) = 1 THEN parts[1]
    ELSE parts[1] \o sep \o Join(sep, Tail(parts))

\* The position of the first c in s at or after p, or Len(s) + 1.
RECURSIVE Find(_, _, _)
Find(s, c, p) ==
    IF p > Len(s) THEN Len(s) + 1
    ELSE IF s[p] = c THEN p ELSE Find(s, c, p + 1)

\* Timestamp rendering: HH:MM:SS,mmm
TimestampOutput(t) ==
    Pad(t.hours, 2) \o <<":">> \o Pad(t.minutes, 2) \o <<":">> \o Pad(t.seconds, 2)
        \o <<",">> \o Pad(t.milliseconds, 3)

\* Timestamp parsing of HH:MM:SS,mmm
TimestampFromString(s) ==
    LET c1 == Find(s, ":", 1)
        c2 == Find(s, ":", c1 + 1)
        c3 == Find(s, ",", c2 + 1)
    IN  Timestamp(ToInt(SubSeq(s, 1, c1 - 1)), ToInt(SubSeq(s, c1 + 1, c2 - 1)),
                  ToInt(SubSeq(s, c2 + 1, c3 - 1)), ToInt(SubSeq(s, c3 + 1, Len(s))))

\* Timing.from_string(start, end)
TimingFromString(start, end) ==
    [start |-> TimestampFromString(start), end |-> TimestampFromString(end)]

Arrow == <<" ", "-", "-", ">", " ">>

\* Timing rendering: the two timecodes joined by " --> "
TimingOutput(timing) ==
    TimestampOutput(timing.start) \o Arrow \o TimestampOutput(timing.end)

\* Line.output: index, timing and text, each followed by a newline.
LineOutput(line) ==
    Str(line.index) \o <<NL>> \o TimingOutput(line.timing) \o <<NL>> \o line.text
        \o <<NL>>

(***************************************************************************)
(* .regex: LINE, the cue pattern                                           *)
(***************************************************************************)
\* The position after the run of digits that starts at p.
RECURSIVE DigitsEnd(_, _)
DigitsEnd(s, p) ==
    IF p <= Len(s) /\ IsDigit(s[p]) THEN DigitsEnd(s, p + 1) ELSE p

At(s, p, c) == p <= Len(s) /\ s[p] = c

DigitsAt(s, p, n) == \A k \in 0..(n - 1) : p + k <= Len(s) /\ IsDigit(s[p + k])

\* A timecode \d+:\d\d:\d\d,\d\d\d starting at p: the position after it, or 0.
TimecodeEnd(s, p) ==
    LET e == DigitsEnd(s, p)
    IN  IF /\ e > p
           /\ At(s, e, ":") /\ DigitsAt(s, e + 1, 2)
           /\ At(s, e + 3, ":") /\ DigitsAt(s, e + 4, 2)
           /\ At(s, e + 6, ",") /\ DigitsAt(s, e + 7, 3)
        THEN e + 10
        ELSE 0

\* The position after the inline spacing that starts at p.
RECURSIVE SkipInline(_, _)
SkipInline(s, p) ==
    IF p <= Len(s) /\ s[p] \in {" ", "\t"} THEN SkipInline(s, p + 1) ELSE p

\* The first empty line at or after p (the blank line that ends a text block),
\* or Len(s) + 1. first is the position the text block starts at.
RECURSIVE BlockEnd(_, _, _)
BlockEnd(s, p, first) ==
    IF p > Len(s) THEN Len(s) + 1
    ELSE IF s[p] = NL /\ (p = first \/ s[p - 1] = NL) THEN p
    ELSE BlockEnd(s, p + 1, first)

\* One match of LINE starting at p: its groups and the position after it, or
\* a record with ok = FALSE.
LineMatch(s, p) ==
    LET e1 == TimecodeEnd(s, p)
        a  == SkipInline(s, e1)
        b  == SkipInline(s, a + 3)
        e2 == TimecodeEnd(s, b)
        t  == BlockEnd(s, e2 + 1, e2 + 1)
        no == [ok |-> FALSE, start |-> <<>>, end |-> <<>>, text |-> <<>>, next |-> p + 1]
    IN  IF e1 = 0 THEN no
        ELSE IF ~(At(s, a, "-") /\ At(s, a + 1, "-") /\ At(s, a + 2, ">")) THEN no
        ELSE IF e2 = 0 THEN no
        ELSE IF ~(e2 > Len(s) \/ s[e2] = NL) THEN no
        ELSE [ok |-> TRUE, start |-> SubSeq(s, p, e1 - 1), end |-> SubSeq(s, b, e2 - 1),
              text |-> SubSeq(s, e2 + 1, t - 1), next |-> t + 1]

\* LINE.finditer(filestring): the matches in file order, none overlapping.
RECURSIVE finditer(_, _)
finditer(s, p) ==
    IF p > Len(s) THEN <<>>
    ELSE LET m == LineMatch(s, p)
         IN  IF m.ok THEN <<m>> \o finditer(s, m.next) ELSE finditer(s, p + 1)

(***************************************************************************)
(* SrtSubtitle.parse and SrtSubtitle.output                                *)
(***************************************************************************)
\* Faulty variant: enumerate() left at its default start.
parse_from_zero(s) ==
    LET ms == finditer(s, 1)
    IN  [i \in 1..Len(ms) |->
            [index  |-> i - 1,
             timing |-> TimingFromString(ms[i].start, ms[i].end),
             text   |-> Strip(ms[i].text)]]

\* Lines 81-98: one Line per match, numbered from 1, its text stripped.
parse(s) ==
    LET ms == finditer(s, 1)
    IN  [i \in 1..Len(ms) |->
            [index  |-> i,
             timing |-> TimingFromString(ms[i].start, ms[i].end),
             text   |-> Strip(ms[i].text)]]

\* Line 281: "\n".join(line.output for line in self.lines)
output(ls) == Join(<<NL>>, [i \in 1..Len(ls) |-> LineOutput(ls[i])])

(***************************************************************************)
(* SpecParse: parse() and output on cue texts                              *)
(***************************************************************************)
MaxCues == 2

TimecodeA == <<"0", "0", ":", "0", "0", ":", "0", "1", ",", "0", "0", "0">>
TimecodeB == <<"0", "0", ":", "0", "0", ":", "0", "3", ",", "5", "0", "0">>
TimecodeC == <<"0", "1", ":", "5", "9", ":", "5", "9", ",", "9", "9", "9">>
TimecodeD == <<"1", "0", "0", ":", "0", "0", ":", "0", "0", ",", "0", "1", "0">>

TimingLines == {<<TimecodeA, TimecodeB>>, <<TimecodeB, TimecodeC>>,
                <<TimecodeC, TimecodeD>>}

\* Cue texts with no whitespace at either end.
CueTexts == {<<"a">>, <<"a", " ", "b">>, <<"a", NL, " ", "b">>}

\* Cue texts with no trailing whitespace that start with whitespace.
IndentedCueTexts == {<<" ", "a">>}

\* One cue block of the file format: index line, timing line, text, blank line.
Block(i, tl, text) ==
    Str(i) \o <<NL>> \o tl[1] \o Arrow \o tl[2] \o <<NL>> \o text \o <<NL, NL>>

\* The files of n blocks numbered 1..n with texts drawn from texts.
RECURSIVE Files(_, _)
Files(n, texts) ==
    IF n = 0 THEN {<<>>}
    ELSE {f \o Block(n, tl, tx) : f \in Files(n - 1, texts), tl \in TimingLines,
                                   tx \in texts}

\* The last block may end with a blank line, a newline or the end of the file.
Endings(f) ==
    IF f = <<>> THEN {f}
    ELSE {f, SubSeq(f, 1, Len(f) - 1), SubSeq(f, 1, Len(f) - 2)}

Inputs(texts) == UNION {Endings(f) : f \in UNION {Files(n, texts) : n \in 0..MaxCues}}

CanonicalInputs == Inputs(CueTexts)

AllInputs == Inputs(CueTexts \cup IndentedCueTexts)

IdleParseVars ==
    /\ filestring = <<>>
    /\ pstage = "idle"
    /\ parsed = <<>>
    /\ rendered = <<>>

InitParse ==
    /\ filestring \in AllInputs
    /\ pstage = "input"
    /\ parsed = <<>>
    /\ rendered = <<>>

\* lines = SrtSubtitle.parse(filestring)
Parse ==
    /\ pstage = "input"
    /\ parsed' = parse(filestring)
    /\ pstage' = "parsed"
    /\ UNCHANGED <<filestring, rendered, openVars, docVars>>

\* SrtSubtitle(lines=lines).output
Render ==
    /\ pstage = "parsed"
    /\ rendered' = output(parsed)
    /\ pstage' = "rendered"
    /\ UNCHANGED <<filestring, parsed, openVars, docVars>>

(***************************************************************************)
(* Spec: a document under shift, shift_forward, shift_backward and save    *)
(***************************************************************************)
MaxCalls == 2

\* An index argument: None, one int, or a list of ints.
NoIndex == [kind |-> "none", v |-> <<>>]
IntIndex(k) == [kind |-> "int", v |-> <<k>>]
ListIndex(ks) == [kind |-> "list", v |-> ks]

\* for line in lines: line.timing.shift(...), the Line objects mutated in place.
RECURSIVE ShiftEach(_, _, _, _, _, _)
ShiftEach(h, ids, shift_by, backward, start, end) ==
    IF ids = <<>> THEN h
    ELSE ShiftEach([h EXCEPT ![Head(ids)].timing =
                        TimingShift(@, shift_by, backward, start, end)],
                   Tail(ids), shift_by, backward, start, end)

\* Faulty variant: the index list is not applied.
shift_unfiltered(h, selfLines, shift_by, indexes, linesArg, backward, start, end) ==
    IF linesArg = <<>> /\ selfLines = <<>>
    THEN [heap |-> h, result |-> "ValueError: no lines"]
    ELSE LET chosen == IF linesArg = <<>> THEN selfLines[1] ELSE linesArg[1]
         IN  [heap   |-> ShiftEach(h, chosen, shift_by, backward, start, end),
              result |-> "ok"]

\* Lines 144-153. selfLines and linesArg are <<>> for None, <<ids>> for a list.
shift(h, selfLines, shift_by, indexes, linesArg, backward, start, end) ==
    IF linesArg = <<>> /\ selfLines = <<>>
    THEN [heap |-> h, result |-> "ValueError: no lines"]
    ELSE LET chosen   == IF linesArg = <<>> THEN selfLines[1] ELSE linesArg[1]
             filtered == IF indexes.kind # "none"
                         THEN get_lines(h, chosen, indexes.v)
                         ELSE chosen
         IN  [heap   |-> ShiftEach(h, filtered, shift_by, backward, start, end),
              result |-> "ok"]

AllZero(f) == f[1] = 0 /\ f[2] = 0 /\ f[3] = 0 /\ f[4] = 0

\* isinstance(index, int): index = [index]
AsList(index) == IF index.kind = "int" THEN ListIndex(index.v) ELSE index

\* Faulty variant: the index is not passed on.
shift_forward_all(h, selfLines, f, index, linesArg) ==
    IF AllZero(f) THEN [heap |-> h, result |-> "ValueError: No time specified"]
    ELSE shift(h, selfLines, Timestamp(f[1], f[2], f[3], f[4]), NoIndex,
               linesArg, FALSE, TRUE, TRUE)

\* Lines 184-194. f is <<hours, minutes, seconds, milliseconds>>.
shift_forward(h, selfLines, f, index, linesArg) ==
    IF AllZero(f) THEN [heap |-> h, result |-> "ValueError: No time specified"]
    ELSE shift(h, selfLines, Timestamp(f[1], f[2], f[3], f[4]), AsList(index),
               linesArg, FALSE, TRUE, TRUE)

\* Faulty variant: backward=True is not passed on.
shift_backward_as_forward(h, selfLines, f, index, linesArg) ==
    IF AllZero(f) THEN [heap |-> h, result |-> "ValueError: No time specified"]
    ELSE shift(h, selfLines, Timestamp(f[1], f[2], f[3], f[4]), AsList(index),
               linesArg, FALSE, TRUE, TRUE)

\* Lines 225-237.
shift_backward(h, selfLines, f, index, linesArg) ==
    IF AllZero(f) THEN [heap |-> h, result |-> "ValueError: No time specified"]
    ELSE shift(h, selfLines, Timestamp(f[1], f[2], f[3], f[4]), AsList(index),
               linesArg, TRUE, TRUE, TRUE)

\* Python truthiness of an optional string.
Truthy(x) == x # None /\ x # ""

\* x or y
Or(x, y) == IF Truthy(x) THEN x ELSE y

Absent == [exists |-> FALSE, data |-> <<>>, encoding |-> None]

OldFile == [exists |-> TRUE, data |-> <<"o", "l", "d">>, encoding |-> "utf-8"]

\* Faulty variant: the text to write is computed before the file is opened.
save_output_first(files, selfPath, selfEncoding, selfLines, h, pathArg, encArg) ==
    LET p == Or(pathArg, selfPath)
    IN  IF selfLines = <<>>
        THEN [fs |-> files, result |-> "ValueError: No lines to output"]
        ELSE IF p = None
        THEN [fs |-> files, result |-> "SrtSaveError: No path specified"]
        ELSE IF p = "" THEN [fs |-> files, result |-> "FileNotFoundError"]
        ELSE [fs |-> [files EXCEPT ![p] =
                         [exists |-> TRUE, encoding |-> Or(encArg, selfEncoding),
                          data |-> output([i \in 1..Len(selfLines[1]) |->
                                               h[selfLines[1][i]]])]],
              result |-> "ok"]

\* Lines 114-119: the path is resolved and checked, the file is opened for
\* writing (created or truncated), and only then is self.output evaluated.
save(files, selfPath, selfEncoding, selfLines, h, pathArg, encArg) ==
    LET p      == Or(pathArg, selfPath)
        opened == [files EXCEPT ![p] = [exists |-> TRUE, data |-> <<>>,
                                        encoding |-> Or(encArg, selfEncoding)]]
    IN  IF p = None THEN [fs |-> files, result |-> "SrtSaveError: No path specified"]
        ELSE IF p = "" THEN [fs |-> files, result |-> "FileNotFoundError"]
        ELSE IF selfLines = <<>>
        THEN [fs |-> opened, result |-> "ValueError: No lines to output"]
        ELSE [fs |-> [opened EXCEPT ![p].data =
                         output([i \in 1..Len(selfLines[1]) |-> h[selfLines[1][i]]])],
              result |-> "ok"]

\* ---- the calls the model makes ----
Paths == {"a.srt", "b.srt"}

\* <<hours, minutes, seconds, milliseconds>> arguments
Amounts == {<<0, 0, 0, 0>>, <<0, 0, 2, 0>>, <<0, 59, 59, 999>>, <<2, 0, 61, 1500>>}

\* <<index, lines>> arguments: all lines; one index; a list with an index no
\* line has; an explicit list naming one Line twice.
Selections == {<<NoIndex, <<>>>>, <<IntIndex(1), <<>>>>, <<ListIndex(<<2, 7>>), <<>>>>,
               <<ListIndex(<<3>>), <<<<3, 2, 3>>>>>>}

\* <<backward, start, end>> arguments of direct shift() calls
Flags == {<<FALSE, TRUE, FALSE>>, <<TRUE, FALSE, TRUE>>, <<FALSE, FALSE, FALSE>>}

DirectAmounts == {<<0, 0, 2, 0>>, <<0, 59, 59, 999>>}

DirectSelections == {<<NoIndex, <<<<3, 1>>>>>>, <<ListIndex(<<2, 7>>), <<>>>>}

\* <<path, encoding>> arguments of save()
SaveArgs == {<<None, None>>, <<"", None>>, <<"b.srt", None>>, <<"b.srt", "latin-1">>}

\* The three Line objects: the cues of a parsed three-cue file.
InitialHeap ==
    parse(Block(1, <<TimecodeA, TimecodeB>>, <<"a">>)
          \o Block(2, <<TimecodeB, TimecodeC>>, <<"a", " ", "b">>)
          \o Block(3, <<TimecodeC, TimecodeD>>, <<"a", NL, " ", "b">>))

CallRecord(op, f, shift_by, index, linesArg, backward, start, end, pathArg, encArg) ==
    [op |-> op, fields |-> f, shift_by |-> shift_by, index |-> index,
     linesArg |-> linesArg, backward |-> backward, start |-> start, end |-> end,
     pathArg |-> pathArg, encArg |-> encArg]

\* The call, the state it started from and how it ended.
Entry(c, res) == [call |-> c, heap |-> heap, fs |-> fs, result |-> res]

Record(c, res) ==
    /\ hist' = <<Entry(c, res)>> \o SubSeq(hist, 1, IF hist = <<>> THEN 0 ELSE 1)
    /\ result' = res
    /\ calls' = calls + 1

InitDocVars ==
    /\ path \in {None, "a.srt"}
    /\ encoding = "utf-8"
    /\ lines \in {<<>>, <<<<>>>>, <<<<1, 2>>>>}
    /\ heap = InitialHeap
    /\ fs = [p \in Paths |-> IF p = "a.srt" THEN OldFile ELSE Absent]
    /\ result = None
    /\ hist = <<>>
    /\ calls = 0

IdleDocVars ==
    /\ path = None
    /\ encoding = "utf-8"
    /\ lines = <<>>
    /\ heap = <<>>
    /\ fs = [p \in Paths |-> Absent]
    /\ result = None
    /\ hist = <<>>
    /\ calls = 0

ShiftForward ==
    /\ calls < MaxCalls
    /\ \E f \in Amounts, sel \in Selections :
          LET r == shift_forward(heap, lines, f, sel[1], sel[2])
          IN  /\ heap' = r.heap
              /\ Record(CallRecord("shift_forward", f, Timestamp(f[1], f[2], f[3], f[4]),
                                   sel[1], sel[2], FALSE, TRUE, TRUE, None, None),
                        r.result)
    /\ UNCHANGED <<path, encoding, lines, fs, openVars, parseVars>>

ShiftBackward ==
    /\ calls < MaxCalls
    /\ \E f \in Amounts, sel \in Selections :
          LET r == shift_backward(heap, lines, f, sel[1], sel[2])
          IN  /\ heap' = r.heap
              /\ Record(CallRecord("shift_backward", f, Timestamp(f[1], f[2], f[3], f[4]),
                                   sel[1], sel[2], TRUE, TRUE, TRUE, None, None),
                        r.result)
    /\ UNCHANGED <<path, encoding, lines, fs, openVars, parseVars>>

Shift ==
    /\ calls < MaxCalls
    /\ \E f \in DirectAmounts, sel \in DirectSelections, fl \in Flags :
          LET by == Timestamp(f[1], f[2], f[3], f[4])
              r  == shift(heap, lines, by, sel[1], sel[2], fl[1], fl[2], fl[3])
          IN  /\ heap' = r.heap
              /\ Record(CallRecord("shift", f, by, sel[1], sel[2], fl[1], fl[2], fl[3],
                                   None, None),
                        r.result)
    /\ UNCHANGED <<path, encoding, lines, fs, openVars, parseVars>>

Save ==
    /\ calls < MaxCalls
    /\ \E a \in SaveArgs :
          LET r == save(fs, path, encoding, lines, heap, a[1], a[2])
          IN  /\ fs' = r.fs
              /\ Record(CallRecord("save", <<0, 0, 0, 0>>, ZeroTimestamp, NoIndex, <<>>,
                                   FALSE, FALSE, FALSE, a[1], a[2]),
                        r.result)
    /\ UNCHANGED <<path, encoding, lines, heap, openVars, parseVars>>

(***************************************************************************)
(* The specifications                                                      *)
(***************************************************************************)
Init == IdleOpenVars /\ InitDocVars /\ IdleParseVars

Next == ShiftForward \/ ShiftBackward \/ Shift \/ Save

Spec == Init /\ [][Next]_vars

InitOpen == InitOpenVars /\ IdleDocVars /\ IdleParseVars

NextOpen == OpenFile \/ ReadOk \/ ReadFailRetry \/ ReadFailExhausted \/ Unwind

SpecOpen == InitOpen /\ [][NextOpen]_vars

InitParseSpec == IdleOpenVars /\ IdleDocVars /\ InitParse

NextParse == Parse \/ Render

SpecParse == InitParseSpec /\ [][NextParse]_vars

(***************************************************************************)
(* Properties                                                              *)
(***************************************************************************)
Max(a, b) == IF a >= b THEN a ELSE b

Elems(seq) == {seq[k] : k \in 1..Len(seq)}

Mult(o, seq) == Cardinality({k \in 1..Len(seq) : seq[k] = o})

Last == hist[1]

\* The line set a shift call of hist entry e chose: its lines argument, or
\* the document's lines.
Chosen(e) == IF e.call.linesArg = <<>> THEN lines[1] ELSE e.call.linesArg[1]

\* How many times the call of hist entry e shifts Line object o.
Times(e, o) ==
    IF e.call.index.kind = "none" \/ e.heap[o].index \in Elems(e.call.index.v)
    THEN Mult(o, Chosen(e))
    ELSE 0

\* The timestamp t after being moved n times by the call of hist entry e.
Moved(e, t, n) ==
    IF e.call.backward THEN FromMs(Max(0, ToMs(t) - n * ToMs(e.call.shift_by)))
                       ELSE FromMs(ToMs(t) + n * ToMs(e.call.shift_by))

IsShiftCall(e) == e.call.op \in {"shift", "shift_forward", "shift_backward"}

Normalized(t) ==
    /\ t.hours >= 0
    /\ t.minutes >= 0 /\ t.minutes < MinPerHour
    /\ t.seconds >= 0 /\ t.seconds < SecPerMinute
    /\ t.milliseconds >= 0 /\ t.milliseconds < MsPerSecond

RoundTrips == RStrip(rendered) = RStrip(filestring)

\* C1 as stated: for every valid cue text whose cue texts have no trailing
\* whitespace, the output of the parsed lines is the text again, up to the
\* whitespace that ends it.
C1_RoundTrip == pstage = "rendered" => RoundTrips

\* C1 amended: for every valid cue text whose cue texts have no whitespace at
\* either end, the output of the parsed lines is the text again, up to the
\* whitespace that ends it.
C1_RoundTripTrimmed ==
    pstage = "rendered" /\ filestring \in CanonicalInputs => RoundTrips

C1_Witness ==
    /\ pstage = "rendered"
    /\ filestring \in CanonicalInputs
    /\ Len(parsed) = 2
    /\ \E k \in 1..Len(parsed[2].text) : parsed[2].text[k] = NL
    /\ rendered # filestring

\* The first candidate of the caller's chain that decodes the file, or None.
FirstDecoding ==
    LET chain == call.fallback_encodings
        ok    == {i \in 1..Len(chain) : chain[i] \in decodable}
    IN  IF ok = {} THEN None ELSE chain[CHOOSE i \in ok : \A j \in ok : i <= j]

\* C2: open with the default utf-8 on a file that does not decode as utf-8
\* but decodes with a candidate of the caller's chain returns a document whose
\* encoding is the first such candidate.
C2_FirstDecodingCandidateWins ==
    (OpenDone /\ call.encoding = "utf-8" /\ "utf-8" \notin decodable
        /\ FirstDecoding # None)
    => (ret.kind = "document" /\ ret.value = FirstDecoding)

\* C3: every timestamp of every line is non-negative and normalized, and a
\* backward shift by more than a selected timestamp's value leaves it at zero.
C3_NormalizedAndClamped ==
    /\ \A o \in DOMAIN heap :
          Normalized(heap[o].timing.start) /\ Normalized(heap[o].timing.end)
    /\ (hist # <<>> /\ IsShiftCall(Last) /\ Last.call.backward /\ Last.result = "ok")
       => \A o \in DOMAIN heap :
             Times(Last, o) > 0 =>
                /\ (Last.call.start /\ ToMs(Last.heap[o].timing.start)
                                          < ToMs(Last.call.shift_by))
                   => heap[o].timing.start = ZeroTimestamp
                /\ (Last.call.end /\ ToMs(Last.heap[o].timing.end)
                                        < ToMs(Last.call.shift_by))
                   => heap[o].timing.end = ZeroTimestamp

C3_Witness ==
    /\ hist # <<>>
    /\ Last.call.op = "shift_backward"
    /\ Last.result = "ok"
    /\ \E o \in DOMAIN heap :
          /\ Times(Last, o) > 0
          /\ ToMs(Last.heap[o].timing.start) > 0
          /\ ToMs(Last.heap[o].timing.start) < ToMs(Last.call.shift_by)
          /\ ToMs(Last.heap[o].timing.end) > ToMs(Last.call.shift_by)
          /\ heap[o].timing.start = ZeroTimestamp

\* The newest two calls are shift_forward and then shift_backward with the
\* same amount and the same line selection, both carried out.
ForwardThenBackward ==
    /\ Len(hist) = 2
    /\ hist[2].call.op = "shift_forward" /\ hist[2].result = "ok"
    /\ hist[1].call.op = "shift_backward" /\ hist[1].result = "ok"
    /\ hist[1].call.fields = hist[2].call.fields
    /\ hist[1].call.index = hist[2].call.index
    /\ hist[1].call.linesArg = hist[2].call.linesArg

\* C4: shift_forward by X followed by shift_backward by X on the same
\* selection leaves every line's Timing as it was before the two calls.
C4_ForwardBackwardCancel ==
    ForwardThenBackward => \A o \in DOMAIN heap : heap[o].timing = hist[2].heap[o].timing

C4_Witness ==
    /\ ForwardThenBackward
    /\ hist[2].call.index.kind = "int"
    /\ \E o \in DOMAIN heap : hist[1].heap[o].timing # heap[o].timing
    /\ \E o \in DOMAIN heap : hist[1].heap[o].timing = heap[o].timing

\* C5: a save with no path from the document or the call fails with the
\* no-path error whether or not lines are present, and the no-lines error is
\* raised only, and always, when a path is resolved and lines is absent.
C5_SavePreconditionOrder ==
    (hist # <<>> /\ Last.call.op = "save") =>
        /\ (Last.call.pathArg = None /\ path = None)
              => Last.result = "SrtSaveError: No path specified"
        /\ Last.result = "ValueError: No lines to output"
              => (lines = <<>> /\ (Last.call.pathArg \in Paths \/ path \in Paths))
        /\ (lines = <<>> /\ (Last.call.pathArg \in Paths \/ path \in Paths))
              => Last.result = "ValueError: No lines to output"

C5_Witness ==
    /\ hist # <<>>
    /\ Last.call.op = "save"
    /\ Last.call.pathArg = None
    /\ path = None
    /\ lines = <<>>
    /\ Last.result = "SrtSaveError: No path specified"

\* C6: a shift call given an index list shifts the Timing of exactly the
\* chosen lines whose index is listed; every other Timing and every index and
\* text stay as they were; an index no line has raises nothing.
C6_IndexListFrame ==
    (hist # <<>> /\ IsShiftCall(Last) /\ Last.call.index.kind # "none"
        /\ ~(Last.call.op # "shift" /\ AllZero(Last.call.fields))
        /\ ~(Last.call.linesArg = <<>> /\ lines = <<>>))
    => /\ Last.result = "ok"
       /\ \A o \in DOMAIN heap :
             /\ heap[o].index = Last.heap[o].index
             /\ heap[o].text = Last.heap[o].text
             /\ heap[o].timing.start =
                   IF Last.call.start
                   THEN Moved(Last, Last.heap[o].timing.start, Times(Last, o))
                   ELSE Last.heap[o].timing.start
             /\ heap[o].timing.end =
                   IF Last.call.end
                   THEN Moved(Last, Last.heap[o].timing.end, Times(Last, o))
                   ELSE Last.heap[o].timing.end

C6_Witness ==
    /\ hist # <<>>
    /\ IsShiftCall(Last)
    /\ Last.call.index = ListIndex(<<2, 7>>)
    /\ Last.result = "ok"
    /\ lines = <<<<1, 2>>>>
    /\ heap[2].timing # Last.heap[2].timing
    /\ heap[1].timing = Last.heap[1].timing

\* C7: within one open call no encoding is read with twice.
C7_NoEncodingTriedTwice ==
    \A i, j \in 1..Len(attempts) : i # j => attempts[i] # attempts[j]

\* C8: when open ends with the chain exhausted, the caller's use_chardet
\* decides the exception: NotImplementedError when set, otherwise
\* SrtEncodingDetectError.
C8_CallerFlagDecidesExhaustion ==
    (OpenDone /\ ret.kind = "raise")
    => ret.value = IF call.use_chardet THEN "NotImplementedError"
                                       ELSE "SrtEncodingDetectError"

\* C9: at most one handle on the file is open at any point of an open call,
\* and none once the call has returned or raised.
C9_OneHandleAtATime ==
    /\ Cardinality(OpenHandles) <= 1
    /\ OpenDone => OpenHandles = {}

\* C10: a save that fails with the no-path or the no-lines error leaves the
\* file system as it was.
C10_FailedSaveKeepsFiles ==
    (hist # <<>> /\ Last.call.op = "save"
        /\ Last.result \in {"SrtSaveError: No path specified",
                            "ValueError: No lines to output"})
    => fs = Last.fs

====
